---------------------------- MODULE Spec2Model ----------------------------
(***************************************************************************)
(* A model of ynab_checker.py: the occurrence generator                    *)
(* (occurrences_within_window, advance_date, add_months), the occurrence   *)
(* table (build_occurrences), the projection (calc_projection), the risk   *)
(* report (compute_risk) and the transfer allocator (compute_transfers).   *)
(*                                                                         *)
(* Dates are proleptic Gregorian ordinals, as datetime.date.toordinal()    *)
(* gives them, so that date comparison is integer comparison and           *)
(* date + timedelta(days=n) is integer addition.  Python's None is NoDate. *)
(* Amounts are integers (milliunits).                                      *)
(***************************************************************************)
EXTENDS Integers, Sequences, FiniteSets

VARIABLES
    today,            \* date.today(), fixed for one run
    \* occurrences_within_window
    start, frequency, max_days, current, yielded, gen_pc,
    \* build_occurrences
    scheduled, max_window, txn_idx, occurrences, build_pc,
    \* calc_projection
    acct_occurrences, balance, cutoff, proj_result, proj_pc,
    \* compute_risk and compute_transfers
    accounts, windows, risks, surpluses, deficits, idx, group, allocations,
    alloc_idx, source_idx, remaining, moves, uncovered, evaluated, pc

genVars    == <<start, frequency, max_days, current, yielded, gen_pc>>
buildVars  == <<scheduled, max_window, txn_idx, build_pc>>
projVars   == <<acct_occurrences, balance, cutoff, proj_result, proj_pc>>
engineVars == <<accounts, windows, risks, surpluses, deficits, idx, group,
                allocations, alloc_idx, source_idx, remaining, moves,
                uncovered, evaluated, pc>>
vars == <<today, genVars, buildVars, occurrences, projVars, engineVars>>

\* Python's None where a date is expected; every date's ordinal is >= 1.
NoDate == 0

Min(a, b) == IF a <= b THEN a ELSE b

Range(s) == {s[i] : i \in DOMAIN s}

(***************************************************************************)
(* The calendar: datetime.date and calendar.monthrange.                    *)
(***************************************************************************)
Years == 2022..2028

IsLeap(y) == (y % 4 = 0 /\ y % 100 # 0) \/ y % 400 = 0

\* calendar.monthrange(year, month)[1]
DaysInMonth(y, m) ==
    IF m = 2 THEN (IF IsLeap(y) THEN 29 ELSE 28)
    ELSE IF m \in {4, 6, 9, 11} THEN 30 ELSE 31

DaysBeforeYear(y) ==
    (y - 1) * 365 + (y - 1) \div 4 - (y - 1) \div 100 + (y - 1) \div 400

DaysBeforeMonth(y, m) ==
    <<0, 31, 59, 90, 120, 151, 181, 212, 243, 273, 304, 334>>[m]
        + (IF m > 2 /\ IsLeap(y) THEN 1 ELSE 0)

\* date(y, m, d).toordinal()
ToOrdinal(y, m, d) == DaysBeforeYear(y) + DaysBeforeMonth(y, m) + d

\* date.fromordinal(n).year, .month, .day
YearOf(n) ==
    CHOOSE y \in Years : DaysBeforeYear(y) < n /\ n <= DaysBeforeYear(y + 1)

MonthOf(n) ==
    LET y == YearOf(n)
        r == n - DaysBeforeYear(y)
    IN  CHOOSE m \in 1..12 :
            DaysBeforeMonth(y, m) < r /\ r <= DaysBeforeMonth(y, m) + DaysInMonth(y, m)

DayOf(n) == n - DaysBeforeYear(YearOf(n)) - DaysBeforeMonth(YearOf(n), MonthOf(n))

add_months(src, months) ==
    LET month_index == MonthOf(src) - 1 + months
        year  == YearOf(src) + month_index \div 12
        month == (month_index % 12) + 1
        day   == Min(DayOf(src), DaysInMonth(year, month))
    IN  ToOrdinal(year, month, day)

KnownFrequencies ==
    {"daily", "weekly", "everyOtherWeek", "every4Weeks", "twiceAMonth",
     "monthly", "everyOtherMonth", "every3Months", "every4Months",
     "twiceAYear", "yearly", "everyOtherYear"}

\* "quarterly" stands for any value advance_date does not recognise.
Frequencies == KnownFrequencies \cup {"never", "quarterly"}

advance_date(cur, freq) ==
    CASE freq = "never"           -> NoDate
      [] freq = "daily"           -> cur + 1
      [] freq = "weekly"          -> cur + 7
      [] freq = "everyOtherWeek"  -> cur + 14
      [] freq = "every4Weeks"     -> cur + 28
      [] freq = "twiceAMonth"     -> cur + 15
      [] freq = "monthly"         -> add_months(cur, 1)
      [] freq = "everyOtherMonth" -> add_months(cur, 2)
      [] freq = "every3Months"    -> add_months(cur, 3)
      [] freq = "every4Months"    -> add_months(cur, 4)
      [] freq = "twiceAYear"      -> add_months(cur, 6)
      [] freq = "yearly"          -> add_months(cur, 12)
      [] freq = "everyOtherYear"  -> add_months(cur, 24)
      [] OTHER                    -> NoDate

(***************************************************************************)
(* occurrences_within_window: one iteration of the while loop per step.    *)
(* yielded collects the dates the generator has yielded so far.            *)
(***************************************************************************)
GenCutoff == today + max_days

YieldsAlways == TRUE

\* line 169: the cursor is yielded only from today on
YieldsCurrent == current >= today

\* line 172: the generator stops when the advance gives no later date
AdvanceStops(next_date) == next_date = NoDate \/ next_date <= current

\* lines 168-174, the loop body: yield, advance, break or continue
GenBody ==
    /\ gen_pc = "loop"
    /\ current <= GenCutoff
    /\ yielded' = IF YieldsCurrent THEN Append(yielded, current) ELSE yielded
    /\ LET next_date == advance_date(current, frequency)
       IN  IF AdvanceStops(next_date)
           THEN gen_pc' = "done" /\ current' = current
           ELSE gen_pc' = "loop" /\ current' = next_date
    /\ UNCHANGED <<start, frequency, max_days>>

\* line 168: the loop condition fails
GenExhausted ==
    /\ gen_pc = "loop"
    /\ current > GenCutoff
    /\ gen_pc' = "done"
    /\ UNCHANGED <<start, frequency, max_days, current, yielded>>

\* The values the variables of the other operations keep while one runs.
GenIdle ==
    /\ start = NoDate /\ frequency = "never" /\ max_days = 0
    /\ current = NoDate /\ yielded = <<>> /\ gen_pc = "idle"

BuildIdle ==
    /\ scheduled = <<>> /\ max_window = 0 /\ txn_idx = 0 /\ build_pc = "idle"

ProjIdle ==
    /\ acct_occurrences = <<>> /\ balance = 0 /\ cutoff = NoDate
    /\ proj_result = <<0, NoDate>> /\ proj_pc = "idle"

EngineIdle ==
    /\ accounts = <<>> /\ windows = <<>> /\ risks = <<>>
    /\ surpluses = <<>> /\ deficits = <<>> /\ idx = 0 /\ group = <<>>
    /\ allocations = <<>> /\ alloc_idx = 0 /\ source_idx = 0 /\ remaining = 0
    /\ moves = <<>> /\ uncovered = <<>> /\ evaluated = <<>> /\ pc = "idle"

(***************************************************************************)
(* The generator on its own: any start date around today, any frequency,   *)
(* any positive horizon.                                                   *)
(***************************************************************************)
MaxBack == 8
MaxAhead == 3
MaxHorizon == 31

GenTodays == {ToOrdinal(2024, 1, 31), ToOrdinal(2023, 12, 30)}
Horizons == {1, 7, MaxHorizon}

GenInit ==
    /\ today \in GenTodays
    /\ max_days \in Horizons
    /\ start \in (today - MaxBack)..(today + MaxAhead)
    /\ frequency \in Frequencies
    /\ current = start
    /\ yielded = <<>>
    /\ gen_pc = "loop"
    /\ BuildIdle /\ ProjIdle /\ EngineIdle
    /\ occurrences = <<>>

GenIterate ==
    GenBody /\ UNCHANGED <<today, buildVars, occurrences, projVars, engineVars>>

GenReturn ==
    GenExhausted /\ UNCHANGED <<today, buildVars, occurrences, projVars, engineVars>>

GenNext == GenIterate \/ GenReturn

\* The generator is run to exhaustion by its consumer (the for loop of
\* build_occurrences), so its loop is weakly fair.
SpecOccurrences == GenInit /\ [][GenNext]_vars /\ WF_vars(GenNext)

C5_YieldedInWindow ==
    \A i \in DOMAIN yielded :
        /\ today <= yielded[i]
        /\ yielded[i] <= today + max_days
        /\ (i > 1 => yielded[i - 1] < yielded[i])

\* C5: for any start date, any frequency (known, "never" or unrecognised)
\* and any positive horizon, occurrences_within_window terminates, and the
\* dates it yields all lie in [today, today + horizon] and are strictly
\* ascending.
C5_GeneratorTerminatesInWindow == []C5_YieldedInWindow /\ <>(gen_pc = "done")

\* A monthly schedule anchored at a month end has yielded twice, the second
\* date clamped, and the generator has returned.
C5_Witness ==
    /\ gen_pc = "done"
    /\ frequency = "monthly"
    /\ Len(yielded) = 2
    /\ DayOf(yielded[1]) = 31
    /\ DayOf(yielded[2]) = 29

(***************************************************************************)
(* calc_projection.  An occurrence is the pair <<when, amount>>.           *)
(***************************************************************************)
PastCutoffOrAt(when, cut) == when >= cut

\* line 91: the loop stops at the first occurrence past the cutoff
PastCutoff(when, cut) == when > cut

RecordsAnyDrop(projected, drop_date) == projected < 0

\* line 94: only the first negative running balance sets the drop date
RecordsDrop(projected, drop_date) == projected < 0 /\ drop_date = NoDate

RECURSIVE ProjectionLoop(_, _, _, _, _)
\* lines 90-95, from the i-th occurrence on
ProjectionLoop(occ, i, cut, projected, drop_date) ==
    IF i > Len(occ) \/ PastCutoff(occ[i][1], cut)
    THEN <<projected, drop_date>>
    ELSE LET p == projected + occ[i][2]
         IN  ProjectionLoop(occ, i + 1, cut, p,
                            IF RecordsDrop(p, drop_date) THEN occ[i][1] ELSE drop_date)

\* returns <<projected, drop_date>>
calc_projection(occ, bal, cut) == ProjectionLoop(occ, 1, cut, bal, NoDate)

(***************************************************************************)
(* calc_projection on its own: any date-ascending list, balance, cutoff.   *)
(***************************************************************************)
MaxOccurrences == 3
MaxDayOffset == 2

ProjAmounts == {-2, 1, 3}
ProjBalances == {-1, 0, 2}
ProjToday == ToOrdinal(2024, 1, 31)

IsAscending(occ) == \A i \in DOMAIN occ : i > 1 => occ[i - 1][1] <= occ[i][1]

AscendingLists(dates, amounts, maxLen) ==
    {occ \in UNION {[1..n -> dates \X amounts] : n \in 0..maxLen} : IsAscending(occ)}

ProjInit ==
    /\ today = ProjToday
    /\ acct_occurrences \in
          AscendingLists(today..(today + MaxDayOffset), ProjAmounts, MaxOccurrences)
    /\ balance \in ProjBalances
    /\ cutoff \in today..(today + MaxDayOffset)
    /\ proj_result = <<0, NoDate>>
    /\ proj_pc = "call"
    /\ GenIdle /\ BuildIdle /\ EngineIdle
    /\ occurrences = <<>>

ProjCall ==
    /\ proj_pc = "call"
    /\ proj_result' = calc_projection(acct_occurrences, balance, cutoff)
    /\ proj_pc' = "done"
    /\ UNCHANGED <<today, genVars, buildVars, occurrences, engineVars,
                   acct_occurrences, balance, cutoff>>

ProjNext == ProjCall

SpecProjection == ProjInit /\ [][ProjNext]_vars

RECURSIVE SumAmounts(_, _)
\* the sum of the amounts of the occurrences whose index is in S
SumAmounts(occ, S) ==
    IF S = {} THEN 0
    ELSE LET i == CHOOSE j \in S : TRUE
         IN  occ[i][2] + SumAmounts(occ, S \ {i})

C4_Included == {i \in DOMAIN acct_occurrences : acct_occurrences[i][1] <= cutoff}

\* the occurrences after whose application the running balance is negative
C4_Crossings ==
    {k \in C4_Included :
        balance + SumAmounts(acct_occurrences, {j \in C4_Included : j <= k}) < 0}

C4_ExpectedDrop ==
    IF C4_Crossings = {} THEN NoDate
    ELSE LET dates == {acct_occurrences[k][1] : k \in C4_Crossings}
         IN  CHOOSE d \in dates : \A e \in dates : d <= e

\* C4: on a date-ascending list calc_projection returns the starting balance
\* plus the sum of the amounts dated <= cutoff, and as drop date the date of
\* the earliest occurrence (dated <= cutoff) after which the running balance
\* is strictly negative, or none; a later recovery does not clear it.
C4_ProjectionIsPrefixSumAndFirstCrossing ==
    proj_pc = "done" =>
        /\ proj_result[1] = balance + SumAmounts(acct_occurrences, C4_Included)
        /\ proj_result[2] = C4_ExpectedDrop

\* The balance dropped below zero at the second of three dates and has
\* recovered by the cutoff: the drop date stays the second date.
C4_Witness ==
    /\ proj_pc = "done"
    /\ Len(acct_occurrences) = 3
    /\ C4_Included = DOMAIN acct_occurrences
    /\ proj_result[2] # NoDate
    /\ proj_result[1] >= 0
    /\ acct_occurrences[1][1] < proj_result[2]
    /\ proj_result[2] < acct_occurrences[3][1]

(***************************************************************************)
(* list.sort(key=...): a stable sort by the keys k1, then k2.              *)
(***************************************************************************)
StableSort(s, k1, k2) ==
    LET n == Len(s)
        Before(j, i) ==
            \/ k1[j] < k1[i]
            \/ k1[j] = k1[i] /\ k2[j] < k2[i]
            \/ k1[j] = k1[i] /\ k2[j] = k2[i] /\ j < i
        Rank(i) == Cardinality({j \in 1..n : Before(j, i)}) + 1
    IN  [p \in 1..n |-> s[CHOOSE i \in 1..n : Rank(i) = p]]

NoKey(s) == [i \in DOMAIN s |-> 0]

NoSort(occ) == occ

\* line 81: acct_occurrences.sort(key=lambda item: item[0])
SortByDate(occ) == StableSort(occ, [i \in DOMAIN occ |-> occ[i][1]], NoKey(occ))

(***************************************************************************)
(* build_occurrences.  A scheduled transaction is a record with            *)
(* account_id (0 when absent or empty), amount, scheduled_subtransactions  *)
(* (the sub-amounts, <<>> when none), date_next (parsed) and frequency.    *)
(* One step takes up a transaction, runs one iteration of its generator,   *)
(* or sorts the lists at the end.                                          *)
(***************************************************************************)
RECURSIVE SumSeq(_)
SumSeq(s) == IF s = <<>> THEN 0 ELSE s[1] + SumSeq(Tail(s))

\* lines 69-71
TxnAmount(txn) ==
    IF txn.scheduled_subtransactions # <<>>
    THEN SumSeq(txn.scheduled_subtransactions)
    ELSE txn.amount

\* lines 67 and 72: the transactions that contribute nothing
TxnSkipped(txn) == txn.account_id = 0 \/ TxnAmount(txn) = 0

\* line 79: occurrences.setdefault(account_id, []).append(entry)
AppendOccurrence(occs, account_id, entry) ==
    [a \in DOMAIN occs \cup {account_id} |->
        IF a = account_id
        THEN (IF a \in DOMAIN occs THEN Append(occs[a], entry) ELSE <<entry>>)
        ELSE occs[a]]

\* lines 65-73: a transaction without account or with a zero amount
BuildSkipTxn ==
    /\ build_pc = "txn"
    /\ txn_idx <= Len(scheduled)
    /\ TxnSkipped(scheduled[txn_idx])
    /\ txn_idx' = txn_idx + 1
    /\ UNCHANGED <<today, genVars, scheduled, max_window, build_pc, occurrences,
                   projVars, engineVars>>

\* lines 65-76 and 165-167: the generator of the transaction is created
BuildStartTxn ==
    /\ build_pc = "txn"
    /\ txn_idx <= Len(scheduled)
    /\ ~TxnSkipped(scheduled[txn_idx])
    /\ start' = scheduled[txn_idx].date_next
    /\ frequency' = scheduled[txn_idx].frequency
    /\ max_days' = max_window
    /\ current' = scheduled[txn_idx].date_next
    /\ yielded' = <<>>
    /\ gen_pc' = "loop"
    /\ build_pc' = "gen"
    /\ UNCHANGED <<today, scheduled, max_window, txn_idx, occurrences,
                   projVars, engineVars>>

\* lines 76-79 around one iteration of the generator's loop
BuildGenIterate ==
    /\ build_pc = "gen"
    /\ GenBody
    /\ occurrences' =
          IF YieldsCurrent /\ ~(current < today)
          THEN AppendOccurrence(occurrences, scheduled[txn_idx].account_id,
                                <<current, TxnAmount(scheduled[txn_idx])>>)
          ELSE occurrences
    /\ UNCHANGED <<today, buildVars, projVars, engineVars>>

BuildGenExhausted ==
    /\ build_pc = "gen"
    /\ GenExhausted
    /\ UNCHANGED <<today, buildVars, occurrences, projVars, engineVars>>

\* line 76: the generator has returned, the for loop ends
BuildTxnDone ==
    /\ build_pc = "gen"
    /\ gen_pc = "done"
    /\ txn_idx' = txn_idx + 1
    /\ build_pc' = "txn"
    /\ UNCHANGED <<today, genVars, scheduled, max_window, occurrences,
                   projVars, engineVars>>

\* lines 80-82
BuildSort ==
    /\ build_pc = "txn"
    /\ txn_idx > Len(scheduled)
    /\ occurrences' = [a \in DOMAIN occurrences |-> SortByDate(occurrences[a])]
    /\ build_pc' = "done"
    /\ UNCHANGED <<today, genVars, scheduled, max_window, txn_idx,
                   projVars, engineVars>>

MaxSchedules == 2
MaxBuildWindow == 2

BuildToday == ToOrdinal(2024, 1, 31)

\* the transactions line 67 or line 72 drops, and those that contribute
ScheduleChoices ==
    {[account_id |-> 0, amount |-> -2, scheduled_subtransactions |-> <<>>,
      date_next |-> BuildToday, frequency |-> "never"],
     [account_id |-> 1, amount |-> 0, scheduled_subtransactions |-> <<>>,
      date_next |-> BuildToday, frequency |-> "daily"],
     [account_id |-> 1, amount |-> 5, scheduled_subtransactions |-> <<1, -1>>,
      date_next |-> BuildToday, frequency |-> "daily"]}
    \cup
    [account_id : {1, 2},
     amount : {-2},
     scheduled_subtransactions : {<<>>, <<-1, -2>>},
     date_next : {BuildToday - 1, BuildToday + 1},
     frequency : {"never", "daily", "quarterly"}]

BuildInit ==
    /\ today = BuildToday
    /\ max_window = MaxBuildWindow
    /\ scheduled \in [1..MaxSchedules -> ScheduleChoices]
    /\ txn_idx = 1
    /\ occurrences = <<>>
    /\ build_pc = "txn"
    /\ GenIdle /\ ProjIdle /\ EngineIdle

BuildNext ==
    \/ BuildSkipTxn
    \/ BuildStartTxn
    \/ BuildGenIterate
    \/ BuildGenExhausted
    \/ BuildTxnDone
    \/ BuildSort

SpecBuild == BuildInit /\ [][BuildNext]_vars

C6_InWindow(occ) ==
    \A i \in DOMAIN occ : today <= occ[i][1] /\ occ[i][1] <= today + max_window

C6_StrictlyAscending(occ) ==
    \A i \in DOMAIN occ : i > 1 => occ[i - 1][1] < occ[i][1]

\* the schedules that contribute to the list of account a
C6_SchedulesOf(a) ==
    {i \in DOMAIN scheduled : scheduled[i].account_id = a /\ ~TxnSkipped(scheduled[i])}

\* C6 as stated: after build_occurrences the list of every account is
\* strictly ascending by date and within [today, today + horizon].
C6_StrictlyAscendingInWindow ==
    build_pc = "done" =>
        \A a \in DOMAIN occurrences :
            C6_StrictlyAscending(occurrences[a]) /\ C6_InWindow(occurrences[a])

\* C6 as amended: after build_occurrences the list of every account is
\* ascending by date (strictly when a single schedule feeds the account;
\* entries of different schedules may share a date) and within
\* [today, today + horizon].
C6_AscendingInWindow ==
    build_pc = "done" =>
        \A a \in DOMAIN occurrences :
            /\ IsAscending(occurrences[a])
            /\ C6_InWindow(occurrences[a])
            /\ Cardinality(C6_SchedulesOf(a)) <= 1 => C6_StrictlyAscending(occurrences[a])

\* Two schedules of one account, the later-dated one first in the input:
\* their entries are interleaved by the sort and two of them share a date.
C6_Witness ==
    /\ build_pc = "done"
    /\ \E a \in DOMAIN occurrences :
          /\ Cardinality(C6_SchedulesOf(a)) = 2
          /\ scheduled[1].date_next > scheduled[2].date_next
          /\ Len(occurrences[a]) >= 4
          /\ ~C6_StrictlyAscending(occurrences[a])

(***************************************************************************)
(* is_cash_account and compute_risk.  An account is a record with id,      *)
(* name, type, on_budget and balance; occurrences maps the ids that have   *)
(* occurrences to their lists.                                             *)
(***************************************************************************)
NonCashTypes ==
    {"creditCard", "lineOfCredit", "mortgage", "autoLoan", "studentLoan",
     "personalLoan", "medicalDebt", "otherDebt", "otherLiability"}

is_cash_account(account) ==
    IF account.type \in NonCashTypes THEN FALSE ELSE account.on_budget

\* occurrences.get(account_id), with <<>> for an absent key
OccurrencesOf(occs, id) == IF id \in DOMAIN occs THEN occs[id] ELSE <<>>

\* sorted(set(windows))
SortedWindows(wins) ==
    LET S == Range(wins)
    IN  [p \in 1..Cardinality(S) |->
            CHOOSE w \in S : Cardinality({v \in S : v < w}) = p - 1]

\* max(windows)
MaxWindow(wins) == CHOOSE w \in Range(wins) : \A v \in Range(wins) : v <= w

\* lines 191-200: the account gets an entry in window win
AtRisk(account, occs, win) ==
    /\ is_cash_account(account)
    /\ OccurrencesOf(occs, account.id) # <<>>
    /\ calc_projection(OccurrencesOf(occs, account.id), account.balance,
                       today + win)[2] # NoDate

\* lines 201-209
RiskEntry(account, occs, win) ==
    LET res == calc_projection(OccurrencesOf(occs, account.id), account.balance,
                               today + win)
    IN  [name |-> account.name, projected |-> res[1], current |-> account.balance,
         window |-> win, drop_date |-> res[2]]

SeverityKeyReversed(entries) == [i \in DOMAIN entries |-> -entries[i].projected]

\* line 212: key=lambda entry: entry["projected"]
SeverityKey(entries) == [i \in DOMAIN entries |-> entries[i].projected]

\* lines 189-212 for one window
RiskList(accts, occs, win) ==
    LET sel == SelectSeq(accts, LAMBDA a : AtRisk(a, occs, win))
        entries == [i \in DOMAIN sel |-> RiskEntry(sel[i], occs, win)]
    IN  StableSort(entries, SeverityKey(entries), NoKey(entries))

\* the dict window -> list of entries
compute_risk(accts, occs, wins) ==
    [w \in Range(SortedWindows(wins)) |-> RiskList(accts, occs, w)]

(***************************************************************************)
(* compute_transfers: classification and sorting (lines 247-276).          *)
(***************************************************************************)
IsSurplus(projected) == projected > 0

IsDeficitBelowOne(projected) == projected < -1

IsDeficit(projected) == projected < 0

ProjectionOf(account, occs, cut) ==
    calc_projection(OccurrencesOf(occs, account.id), account.balance, cut)

\* lines 259-260
SurplusEntry(account, occs, cut) ==
    [id |-> account.id, name |-> account.name,
     available |-> ProjectionOf(account, occs, cut)[1]]

\* lines 262-270
DeficitEntry(account, occs, cut) ==
    LET res == ProjectionOf(account, occs, cut)
    IN  [id |-> account.id, name |-> account.name, need |-> -res[1],
         drop_date |-> IF res[2] # NoDate THEN res[2] ELSE today]

\* lines 253-260 and 272
SortedSurpluses(accts, occs, cut) ==
    LET sel == SelectSeq(accts, LAMBDA a :
                   is_cash_account(a) /\ IsSurplus(ProjectionOf(a, occs, cut)[1]))
        entries == [i \in DOMAIN sel |-> SurplusEntry(sel[i], occs, cut)]
    IN  StableSort(entries, [i \in DOMAIN entries |-> -entries[i].available],
                   NoKey(entries))

DeficitsUnsorted(accts, occs, cut) ==
    LET sel == SelectSeq(accts, LAMBDA a :
                   /\ is_cash_account(a)
                   /\ ~IsSurplus(ProjectionOf(a, occs, cut)[1])
                   /\ IsDeficit(ProjectionOf(a, occs, cut)[1]))
    IN  [i \in DOMAIN sel |-> DeficitEntry(sel[i], occs, cut)]

SortDeficitsByNeedOnly(entries) ==
    StableSort(entries, [i \in DOMAIN entries |-> -entries[i].need], NoKey(entries))

\* line 273: key=lambda d: (d["drop_date"] or cutoff, -d["need"])
SortDeficits(entries) ==
    StableSort(entries, [i \in DOMAIN entries |-> entries[i].drop_date],
               [i \in DOMAIN entries |-> -entries[i].need])

\* lines 253-270 and 273
SortedDeficits(accts, occs, cut) == SortDeficits(DeficitsUnsorted(accts, occs, cut))

(***************************************************************************)
(* compute_transfers: groups, pool and allocation (lines 278-320).         *)
(***************************************************************************)
\* lines 280-284: the group is the run of deficits from i on that share
\* the drop date of deficit i
GroupEnd(defs, i) ==
    CHOOSE j \in i..Len(defs) :
        /\ \A k \in i..j : defs[k].drop_date = defs[i].drop_date
        /\ j = Len(defs) \/ defs[j + 1].drop_date # defs[i].drop_date

GroupAt(defs, i) == SubSeq(defs, i, GroupEnd(defs, i))

\* line 286
AvailablePool(surps) ==
    SumSeq([i \in DOMAIN surps |->
               IF surps[i].available > 0 THEN surps[i].available ELSE 0])

\* line 287
TotalNeed(grp) ==
    SumSeq([i \in DOMAIN grp |-> IF grp[i].need > 0 THEN grp[i].need ELSE 0])

SkipsGroupUnlessTwoShort(pool, need) == pool <= 0 \/ need <= 0 \/ pool + 1 < need

\* lines 288 and 296: the group gets no moves
SkipsGroup(pool, need) == pool <= 0 \/ need <= 0 \/ pool < need

\* lines 289 and 296-299: the skipped group is appended to uncovered
RecordsUncovered(pool, need) ==
    IF pool <= 0 \/ need <= 0 THEN need > 0 ELSE pool < need

UncoveredEntry(grp, pool, need) ==
    [drop_date |-> grp[1].drop_date, need |-> need, available |-> pool,
     accounts |-> grp]

\* lines 307-308
ProportionalShare(allocatable, need, total_need) ==
    Min(need, (allocatable * need) \div total_need)

\* lines 302-308
ProportionalAllocations(grp, pool, total_need) ==
    [i \in DOMAIN grp |->
        ProportionalShare(Min(pool, total_need), grp[i].need, total_need)]

\* line 311
Remainder(grp, pool, total_need) ==
    Min(pool, total_need) - SumSeq(ProportionalAllocations(grp, pool, total_need))

\* line 312: the members' indices, largest need first
RemainderOrder(grp) ==
    StableSort([i \in DOMAIN grp |-> i], [i \in DOMAIN grp |-> -grp[i].need],
               NoKey(grp))

RECURSIVE RemainderLoop(_, _, _, _, _)
\* lines 312-320, from the k-th member of the order on
RemainderLoop(allocs, grp, order, k, remainder) ==
    IF k > Len(order) \/ remainder <= 0 THEN allocs
    ELSE LET i == order[k]
             room == grp[i].need - allocs[i]
             extra == Min(room, remainder)
         IN  IF room <= 0
             THEN RemainderLoop(allocs, grp, order, k + 1, remainder)
             ELSE RemainderLoop([allocs EXCEPT ![i] = @ + extra], grp, order,
                                k + 1, remainder - extra)

\* lines 302-320
Allocations(grp, pool, total_need) ==
    RemainderLoop(ProportionalAllocations(grp, pool, total_need), grp,
                  RemainderOrder(grp), 1, Remainder(grp, pool, total_need))

MoveAmountIgnoringSource(rem, available) == rem

MoveAmountWholeSource(rem, available) == available

\* line 332
MoveAmount(rem, available) == Min(rem, available)

\* What compute_transfers saw when it evaluated a group: the locals
\* drop_date, group, total_need, available_pool and remainder (as of line
\* 311), and len(moves) at that moment.
Evaluation(grp, pool, need) ==
    [drop_date |-> grp[1].drop_date, members |-> grp, need |-> need,
     pool |-> pool,
     remainder |-> IF SkipsGroup(pool, need) THEN 0 ELSE Remainder(grp, pool, need),
     moves_before |-> Len(moves)]

(***************************************************************************)
(* The run of main: compute_risk, then compute_transfers step by step.     *)
(***************************************************************************)
engineFrame == <<today, genVars, buildVars, occurrences, projVars, accounts, windows>>

\* lines 183-213
ComputeRisk ==
    /\ pc = "risk"
    /\ risks' = compute_risk(accounts, occurrences, windows)
    /\ pc' = "transfers"
    /\ UNCHANGED <<engineFrame, surpluses, deficits, idx, group, allocations,
                   alloc_idx, source_idx, remaining, moves, uncovered, evaluated>>

\* lines 247-278
Classify ==
    /\ pc = "transfers"
    /\ IF windows = <<>>
       THEN /\ pc' = "done"
            /\ UNCHANGED <<surpluses, deficits, idx>>
       ELSE /\ surpluses' = SortedSurpluses(accounts, occurrences,
                                            today + MaxWindow(windows))
            /\ deficits' = SortedDeficits(accounts, occurrences,
                                          today + MaxWindow(windows))
            /\ idx' = 1
            /\ pc' = "group"
    /\ moves' = <<>>
    /\ uncovered' = <<>>
    /\ UNCHANGED <<engineFrame, risks, group, allocations, alloc_idx, source_idx,
                   remaining, evaluated>>

\* lines 279-300: a group the pool cannot cover
GroupUncovered ==
    /\ pc = "group"
    /\ idx <= Len(deficits)
    /\ LET grp  == GroupAt(deficits, idx)
           pool == AvailablePool(surpluses)
           need == TotalNeed(grp)
       IN  /\ SkipsGroup(pool, need)
           /\ uncovered' = IF RecordsUncovered(pool, need)
                           THEN Append(uncovered, UncoveredEntry(grp, pool, need))
                           ELSE uncovered
           /\ idx' = idx + Len(grp)
           /\ group' = grp
           /\ evaluated' = Append(evaluated, Evaluation(grp, pool, need))
    /\ UNCHANGED <<engineFrame, risks, surpluses, deficits, allocations, alloc_idx,
                   source_idx, remaining, moves, pc>>

\* lines 279-320: a group the pool covers gets its allocations
GroupAllocate ==
    /\ pc = "group"
    /\ idx <= Len(deficits)
    /\ LET grp  == GroupAt(deficits, idx)
           pool == AvailablePool(surpluses)
           need == TotalNeed(grp)
       IN  /\ ~SkipsGroup(pool, need)
           /\ allocations' = Allocations(grp, pool, need)
           /\ idx' = idx + Len(grp)
           /\ group' = grp
           /\ evaluated' = Append(evaluated, Evaluation(grp, pool, need))
    /\ alloc_idx' = 1
    /\ pc' = "exec"
    /\ UNCHANGED <<engineFrame, risks, surpluses, deficits, source_idx, remaining,
                   moves, uncovered>>

\* lines 323-327: the next (alloc, deficit) pair
ExecAllocation ==
    /\ pc = "exec"
    /\ alloc_idx <= Len(group)
    /\ IF allocations[alloc_idx] <= 0
       THEN /\ alloc_idx' = alloc_idx + 1
            /\ UNCHANGED <<remaining, source_idx, pc>>
       ELSE /\ remaining' = allocations[alloc_idx]
            /\ source_idx' = 1
            /\ pc' = "draw"
            /\ UNCHANGED alloc_idx
    /\ UNCHANGED <<engineFrame, risks, surpluses, deficits, idx, group, allocations,
                   moves, uncovered, evaluated>>

\* lines 327-334: a source with nothing left is passed over
DrawSkipSource ==
    /\ pc = "draw"
    /\ source_idx <= Len(surpluses)
    /\ remaining > 0
    /\ \/ surpluses[source_idx].available <= 0
       \/ MoveAmount(remaining, surpluses[source_idx].available) <= 0
    /\ source_idx' = source_idx + 1
    /\ UNCHANGED <<engineFrame, risks, surpluses, deficits, idx, group, allocations,
                   alloc_idx, remaining, moves, uncovered, evaluated, pc>>

\* lines 327-344: one move from the source to the deficit
DrawMove ==
    /\ pc = "draw"
    /\ source_idx <= Len(surpluses)
    /\ remaining > 0
    /\ surpluses[source_idx].available > 0
    /\ LET amount == MoveAmount(remaining, surpluses[source_idx].available)
       IN  /\ amount > 0
           /\ surpluses' = [surpluses EXCEPT ![source_idx].available = @ - amount]
           /\ remaining' = remaining - amount
           /\ moves' = Append(moves,
                  [from |-> surpluses[source_idx].name,
                   to |-> group[alloc_idx].name,
                   amount |-> amount,
                   cover_drop |-> group[alloc_idx].drop_date])
    /\ source_idx' = source_idx + 1
    /\ UNCHANGED <<engineFrame, risks, deficits, idx, group, allocations, alloc_idx,
                   uncovered, evaluated, pc>>

\* lines 327-329: the inner loop ends
DrawEnd ==
    /\ pc = "draw"
    /\ source_idx > Len(surpluses) \/ remaining <= 0
    /\ alloc_idx' = alloc_idx + 1
    /\ pc' = "exec"
    /\ UNCHANGED <<engineFrame, risks, surpluses, deficits, idx, group, allocations,
                   source_idx, remaining, moves, uncovered, evaluated>>

\* line 323: all allocations of the group are executed
ExecEnd ==
    /\ pc = "exec"
    /\ alloc_idx > Len(group)
    /\ pc' = "group"
    /\ UNCHANGED <<engineFrame, risks, surpluses, deficits, idx, group, allocations,
                   alloc_idx, source_idx, remaining, moves, uncovered, evaluated>>

\* lines 279 and 345
Return ==
    /\ pc = "group"
    /\ idx > Len(deficits)
    /\ pc' = "done"
    /\ UNCHANGED <<engineFrame, risks, surpluses, deficits, idx, group, allocations,
                   alloc_idx, source_idx, remaining, moves, uncovered, evaluated>>

NumAccounts == 4

EngineToday == ToOrdinal(2024, 1, 31)

\* --windows: one window; or two, unsorted and with a repetition
WindowChoices == {<<1>>, <<2, 1, 2>>}

CashProfile(bal, occ) ==
    [type |-> "checking", on_budget |-> TRUE, balance |-> bal, occ |-> occ]

DropsTomorrow == <<<<EngineToday + 1, -3>>>>
DropsInTwoDays == <<<<EngineToday + 2, -2>>>>
DipsAndRecovers == <<<<EngineToday + 1, -2>>, <<EngineToday + 2, 3>>>>
DropsTwice == <<<<EngineToday + 1, -3>>, <<EngineToday + 2, -1>>>>

\* What an account can be: money and no schedule, overdrawn and no schedule,
\* a payment tomorrow or in two days that the balance does not cover, a
\* payment followed by an income that restores the balance, two payments
\* that each leave the balance negative, a credit card that drops and an
\* off-budget account with money.
AccountProfiles ==
    {CashProfile(4, <<>>), CashProfile(-1, <<>>),
     CashProfile(-1, DropsTomorrow), CashProfile(1, DropsInTwoDays),
     CashProfile(1, DipsAndRecovers), CashProfile(2, DropsTwice),
     [type |-> "creditCard", on_budget |-> TRUE, balance |-> -1,
      occ |-> DropsTomorrow],
     [type |-> "savings", on_budget |-> FALSE, balance |-> 4, occ |-> <<>>]}

\* build_occurrences keeps the occurrences within the largest window
ProfilesWithin(horizon) ==
    {p \in AccountProfiles :
        \A k \in DOMAIN p.occ : p.occ[k][1] <= EngineToday + horizon}

Init ==
    /\ today = EngineToday
    /\ windows \in WindowChoices
    /\ \E prof \in [1..NumAccounts -> ProfilesWithin(MaxWindow(windows))] :
          /\ accounts = [i \in 1..NumAccounts |->
                            [id |-> i, name |-> i, type |-> prof[i].type,
                             on_budget |-> prof[i].on_budget,
                             balance |-> prof[i].balance]]
          /\ occurrences = [i \in {j \in 1..NumAccounts : prof[j].occ # <<>>} |->
                               prof[i].occ]
    /\ risks = <<>>
    /\ surpluses = <<>> /\ deficits = <<>> /\ idx = 0 /\ group = <<>>
    /\ allocations = <<>> /\ alloc_idx = 0 /\ source_idx = 0 /\ remaining = 0
    /\ moves = <<>> /\ uncovered = <<>> /\ evaluated = <<>>
    /\ pc = "risk"
    /\ GenIdle /\ BuildIdle /\ ProjIdle

Next ==
    \/ ComputeRisk
    \/ Classify
    \/ GroupUncovered
    \/ GroupAllocate
    \/ ExecAllocation
    \/ DrawSkipSource
    \/ DrawMove
    \/ DrawEnd
    \/ ExecEnd
    \/ Return

Spec == Init /\ [][Next]_vars

(***************************************************************************)
(* What the claims speak of.                                               *)
(***************************************************************************)
RECURSIVE SumMoves(_)
\* the sum of the amounts of the moves whose index is in J
SumMoves(J) ==
    IF J = {} THEN 0
    ELSE LET j == CHOOSE x \in J : TRUE
         IN  moves[j].amount + SumMoves(J \ {j})

\* the moves emitted while the k-th evaluated group was processed
MovesOfGroup(k) ==
    (evaluated[k].moves_before + 1) ..
        (IF k < Len(evaluated) THEN evaluated[k + 1].moves_before ELSE Len(moves))

\* the processing of the k-th evaluated group is over
GroupFinished(k) == k < Len(evaluated) \/ pc \in {"group", "done"}

MemberNames(k) == {evaluated[k].members[i].name : i \in DOMAIN evaluated[k].members}

Fits(k) == evaluated[k].need <= evaluated[k].pool

LongestCutoff == today + MaxWindow(windows)

\* C1: a group whose total need is <= the pool when it is evaluated gets
\* moves that give each member exactly its need and sum to the total need,
\* and the remainder after the proportional phase is zero.
C1_CoveredGroupExactlyFunded ==
    \A k \in DOMAIN evaluated :
        Fits(k) =>
            /\ evaluated[k].remainder = 0
            /\ GroupFinished(k) =>
                  /\ \A i \in DOMAIN evaluated[k].members :
                        SumMoves({j \in MovesOfGroup(k) :
                                     moves[j].to = evaluated[k].members[i].name})
                            = evaluated[k].members[i].need
                  /\ SumMoves(MovesOfGroup(k)) = evaluated[k].need
                  /\ \A j \in MovesOfGroup(k) :
                        /\ moves[j].to \in MemberNames(k)
                        /\ moves[j].cover_drop = evaluated[k].drop_date

\* Two deficits of different need share a drop date, the pool equals their
\* total need exactly and two sources pay.
C1_Witness ==
    /\ pc = "done"
    /\ \E k \in DOMAIN evaluated :
          /\ evaluated[k].need = evaluated[k].pool
          /\ Len(evaluated[k].members) = 2
          /\ evaluated[k].members[1].need > evaluated[k].members[2].need
          /\ Cardinality({moves[j].from : j \in MovesOfGroup(k)}) = 2

C2_Step ==
    (/\ pc = "group"
     /\ idx <= Len(deficits)
     /\ TotalNeed(GroupAt(deficits, idx)) > AvailablePool(surpluses))
    => /\ surpluses' = surpluses
       /\ moves' = moves
       /\ uncovered' = Append(uncovered,
              [drop_date |-> deficits[idx].drop_date,
               need |-> TotalNeed(GroupAt(deficits, idx)),
               available |-> AvailablePool(surpluses),
               accounts |-> GroupAt(deficits, idx)])

C2_Recorded ==
    \A k \in DOMAIN evaluated :
        ~Fits(k) =>
            /\ \A j \in DOMAIN moves : moves[j].to \notin MemberNames(k)
            /\ Cardinality({u \in DOMAIN uncovered :
                               uncovered[u].drop_date = evaluated[k].drop_date}) = 1
            /\ \E u \in DOMAIN uncovered :
                  uncovered[u] = [drop_date |-> evaluated[k].drop_date,
                                  need |-> evaluated[k].need,
                                  available |-> evaluated[k].pool,
                                  accounts |-> evaluated[k].members]

\* C2: when a group's total need exceeds the pool at its evaluation, even by
\* one, the step emits no move, leaves every surplus entry as it is and
\* appends the group to uncovered with its need, the pool and its members;
\* no move ever goes to a member, and the group is recorded exactly once.
C2_UncoveredGroupUntouched == [][C2_Step]_vars /\ []C2_Recorded

\* A group of two is one unit short of a pool that is not empty.
C2_Witness ==
    \E k \in DOMAIN evaluated :
        /\ evaluated[k].need = evaluated[k].pool + 1
        /\ evaluated[k].pool > 0
        /\ Len(evaluated[k].members) = 2
        /\ Len(uncovered) >= 1

\* the account's projected balance at the longest window
InitialSurplus(name) ==
    LET a == CHOOSE x \in Range(accounts) : x.name = name
    IN  ProjectionOf(a, occurrences, LongestCutoff)[1]

C3_Bounded ==
    /\ \A i \in DOMAIN surpluses :
          /\ surpluses[i].available >= 0
          /\ SumMoves({j \in DOMAIN moves : moves[j].from = surpluses[i].name})
                <= InitialSurplus(surpluses[i].name)
    /\ \A j \in DOMAIN moves :
          /\ moves[j].amount > 0
          /\ \E i \in DOMAIN surpluses : surpluses[i].name = moves[j].from

C3_Step ==
    pc \in {"group", "exec", "draw"} =>
        /\ DOMAIN surpluses' = DOMAIN surpluses
        /\ \A i \in DOMAIN surpluses :
              surpluses'[i].available <= surpluses[i].available
        /\ AvailablePool(surpluses') <= AvailablePool(surpluses)

\* C3: throughout the allocation pass every surplus entry's available
\* amount is >= 0 and never increases, what is moved out of a source never
\* exceeds its initial projected surplus, every move amount is > 0 and the
\* pool never increases.
C3_PoolBoundedAndShrinking == []C3_Bounded /\ [][C3_Step]_vars

\* One source has been emptied and another drawn on in part.
C3_Witness ==
    /\ pc = "done"
    /\ Len(moves) >= 3
    /\ \E i, j \in DOMAIN surpluses :
          /\ surpluses[i].available = 0
          /\ surpluses[j].available > 0
          /\ surpluses[j].available < InitialSurplus(surpluses[j].name)

\* the entries of window w that belong to the account
C7_Listed(a, w) == {j \in DOMAIN risks[w] : risks[w][j].name = a.name}

\* C7: for every requested window w the list compute_risk returns holds an
\* entry for an account exactly when the account is a cash account, has at
\* least one occurrence and calc_projection with its balance and cutoff
\* today + w detects a drop date; an account without occurrences is never
\* listed; the entries are ordered by projected balance ascending.  The
\* lists are looked at where compute_risk returns and where the run ends.
C7_RiskListsExactCashDrops ==
    pc \in {"classify", "done"} =>
        /\ DOMAIN risks = Range(windows)
        /\ \A w \in Range(windows) :
              /\ \A a \in Range(accounts) :
                    /\ Cardinality(C7_Listed(a, w)) <= 1
                    /\ C7_Listed(a, w) # {} <=>
                          /\ a.type \notin NonCashTypes
                          /\ a.on_budget
                          /\ a.id \in DOMAIN occurrences
                          /\ Len(occurrences[a.id]) >= 1
                          /\ calc_projection(occurrences[a.id], a.balance,
                                             today + w)[2] # NoDate
                    /\ a.id \notin DOMAIN occurrences => C7_Listed(a, w) = {}
              /\ \A j \in DOMAIN risks[w] :
                    /\ \E a \in Range(accounts) : a.name = risks[w][j].name
                    /\ j > 1 => risks[w][j - 1].projected <= risks[w][j].projected

\* Two accounts are listed in one window, the worse one first although it
\* comes later in the input; an overdrawn account without occurrences and a
\* credit card that drops are not listed.
C7_Witness ==
    /\ pc = "done"
    /\ \E w \in Range(windows) :
          /\ Len(risks[w]) = 2
          /\ risks[w][1].projected < risks[w][2].projected
          /\ risks[w][1].name > risks[w][2].name
    /\ \E a \in Range(accounts) :
          a.balance < 0 /\ a.id \notin DOMAIN occurrences /\ a.type = "checking"
    /\ \E a \in Range(accounts) : a.type = "creditCard"

\* the cash accounts whose projection at the longest window is negative,
\* with the drop date compute_transfers gives them
C8_DropDateOf(a) ==
    LET res == ProjectionOf(a, occurrences, LongestCutoff)
    IN  IF res[2] # NoDate THEN res[2] ELSE today

C8_DeficitAccounts ==
    {a \in Range(accounts) :
        /\ a.type \notin NonCashTypes /\ a.on_budget
        /\ ProjectionOf(a, occurrences, LongestCutoff)[1] < 0}

C8_InitialPool ==
    SumSeq([i \in DOMAIN accounts |->
        IF /\ accounts[i].type \notin NonCashTypes /\ accounts[i].on_budget
           /\ ProjectionOf(accounts[i], occurrences, LongestCutoff)[1] > 0
        THEN ProjectionOf(accounts[i], occurrences, LongestCutoff)[1]
        ELSE 0])

\* the total need of the groups evaluated before the k-th that were covered
C8_SpentBefore(k) ==
    SumSeq([j \in 1..(k - 1) |-> IF Fits(j) THEN evaluated[j].need ELSE 0])

\* C8: the groups are evaluated in strictly ascending drop-date order, one
\* group per distinct drop date holding all deficits of that date in
\* descending need; the pool a group sees is the initial total surplus minus
\* the total need of the earlier covered groups; a group whose need fits
\* that pool is fully covered, whatever happened to earlier groups.
C8_GroupsInDateOrderOverSharedPool ==
    LET deficit_accounts == C8_DeficitAccounts
        drop_date_of == [a \in deficit_accounts |-> C8_DropDateOf(a)]
        initial_pool == C8_InitialPool
    IN  /\ \A k \in DOMAIN evaluated :
              /\ k > 1 => evaluated[k - 1].drop_date < evaluated[k].drop_date
              /\ {evaluated[k].members[i].id : i \in DOMAIN evaluated[k].members}
                    = {a.id : a \in {x \in deficit_accounts :
                                        drop_date_of[x] = evaluated[k].drop_date}}
              /\ \A i \in DOMAIN evaluated[k].members :
                    /\ i > 1 => evaluated[k].members[i - 1].need
                                    >= evaluated[k].members[i].need
                    /\ \A i2 \in DOMAIN evaluated[k].members :
                          i # i2 => evaluated[k].members[i].id
                                        # evaluated[k].members[i2].id
              /\ evaluated[k].pool = initial_pool - C8_SpentBefore(k)
              /\ (Fits(k) /\ GroupFinished(k)) =>
                    SumMoves(MovesOfGroup(k)) = evaluated[k].need
              /\ ~Fits(k) => MovesOfGroup(k) = {}
        /\ pc = "done" =>
              {evaluated[k].drop_date : k \in DOMAIN evaluated}
                  = {drop_date_of[a] : a \in deficit_accounts}

\* Three drop dates and one source: the first group is covered, the second
\* would have fitted the initial pool but not what is left, the third is
\* covered after it.
C8_Witness ==
    /\ pc = "done"
    /\ Len(evaluated) = 3
    /\ Fits(1) /\ ~Fits(2) /\ Fits(3)
    /\ evaluated[2].need <= C8_InitialPool
    /\ evaluated[3].pool = C8_InitialPool - evaluated[1].need

C9_IsDestination(name) == \E j \in DOMAIN moves : moves[j].to = name

C9_IsSource(name) == \E j \in DOMAIN moves : moves[j].from = name

C9_IsUncovered(name) ==
    \E u \in DOMAIN uncovered :
        \E i \in DOMAIN uncovered[u].accounts : uncovered[u].accounts[i].name = name

C9_HandledAsDeficit(name) ==
    /\ \E i \in DOMAIN deficits : deficits[i].name = name
    /\ C9_IsDestination(name) \/ C9_IsUncovered(name)
    /\ ~C9_IsSource(name)

\* C9 as stated: every account at risk in the longest window is a deficit
\* of compute_transfers: a destination of moves or a member of an uncovered
\* group, and never a source.
C9_AtRiskIsDeficit ==
    pc = "done" =>
        \A j \in DOMAIN risks[MaxWindow(windows)] :
            C9_HandledAsDeficit(risks[MaxWindow(windows)][j].name)

\* C9 as amended: every account at risk in the longest window whose
\* projected balance in that window is negative is a deficit of
\* compute_transfers: a destination of moves or a member of an uncovered
\* group, and never a source.
C9_AtRiskAndNegativeIsDeficit ==
    pc = "done" =>
        \A j \in DOMAIN risks[MaxWindow(windows)] :
            risks[MaxWindow(windows)][j].projected < 0 =>
                C9_HandledAsDeficit(risks[MaxWindow(windows)][j].name)

\* Of the accounts at risk in the longest window one receives moves, one is
\* left uncovered, and one that recovers by the end is drawn on as a source.
C9_Witness ==
    /\ pc = "done"
    /\ \E i, j, k \in DOMAIN risks[MaxWindow(windows)] :
          LET r == risks[MaxWindow(windows)]
          IN  /\ r[i].projected < 0 /\ C9_IsDestination(r[i].name)
              /\ r[j].projected < 0 /\ C9_IsUncovered(r[j].name)
              /\ r[k].projected > 0 /\ C9_IsSource(r[k].name)

\* C10: an account reported in window w with drop date d is reported in
\* every larger requested window with the same drop date d.
C10_RiskMonotoneInWindow ==
    pc # "risk" =>
        \A w, w2 \in Range(windows) :
            w < w2 =>
                \A j \in DOMAIN risks[w] :
                    \E j2 \in DOMAIN risks[w2] :
                        /\ risks[w2][j2].name = risks[w][j].name
                        /\ risks[w2][j2].drop_date = risks[w][j].drop_date

\* An account reported in the smaller window is reported in the larger one
\* with another projected balance, and a second account only in the larger.
C10_Witness ==
    /\ pc # "risk"
    /\ \E w, w2 \in Range(windows) :
          /\ w < w2
          /\ \E j \in DOMAIN risks[w], j2 \in DOMAIN risks[w2] :
                /\ risks[w2][j2].name = risks[w][j].name
                /\ risks[w2][j2].projected # risks[w][j].projected
          /\ Len(risks[w]) < Len(risks[w2])

=============================================================================
